---- MODULE Spec2Model ----
(***************************************************************************)
(* Restament (src/index.ts): the runner Restament.test and the helpers it  *)
(* drives (cleanup, createMock, genReqBody, request, assertDB,             *)
(* assertUploads), as a state machine.  The HTTP server, the MySQL         *)
(* storage, the filesystem and image-diff are the environment: every       *)
(* result they hand back is a nondeterministic choice.                     *)
(***************************************************************************)
EXTENDS Integers, Sequences, FiniteSets, TLC

\* Longest batch handed to test().
MaxTests == 2

(***************************************************************************)
(* JavaScript values.  Every value is a record of one shape: its type tag, *)
(* a string payload and a numeric payload.  An array is an object with an  *)
(* identity (s names the allocation), as === compares objects by identity. *)
(***************************************************************************)
Undefined == [t |-> "undefined", s |-> "", n |-> 0]

Null == [t |-> "null", s |-> "", n |-> 0]

Str(x) == [t |-> "string", s |-> x, n |-> 0]

Num(x) == [t |-> "number", s |-> "", n |-> x]

ArrayRef(name) == [t |-> "array", s |-> name, n |-> 0]

\* typeof v
TypeOf(v) ==
  CASE v.t = "null"  -> "object"
    [] v.t = "array" -> "object"
    [] OTHER         -> v.t

\* a === b: same type and same payload; for an array, the same allocation.
StrictEquals(a, b) == a.t = b.t /\ a.s = b.s /\ a.n = b.n

\* String(v), as Array.prototype.join and FormData.append render a scalar.
ToStr(v) ==
  CASE v.t = "string" -> v.s
    [] v.t = "number" -> ToString(v.n)
    [] v.t = "null"   -> "null"
    [] OTHER          -> "undefined"

\* JSON.stringify of a scalar.
JSONScalar(v) ==
  CASE v.t = "string" -> "\"" \o v.s \o "\""
    [] v.t = "number" -> ToString(v.n)
    [] OTHER          -> "null"

RECURSIVE JoinWith(_, _)
\* The strings of a sequence joined by a separator.
JoinWith(strs, sep) ==
  IF strs = <<>> THEN ""
  ELSE IF Len(strs) = 1 THEN strs[1]
  ELSE strs[1] \o sep \o JoinWith(Tail(strs), sep)

(***************************************************************************)
(* Request data.  test.reqdata is undefined or an object; a field holds a  *)
(* scalar or an array of scalars.  test.uploads is undefined or an object  *)
(* of form-field name -> file path (an object is truthy even when empty).  *)
(***************************************************************************)
Field(key, isArray, items) == [key |-> key, isArray |-> isArray, items |-> items]

NoReqData == [defined |-> FALSE, fields |-> <<>>]

OrderReqData ==
  [defined |-> TRUE,
   fields  |-> << Field("order", FALSE, <<Num(0)>>),
                  Field("tags", TRUE, <<Str("a"), Str("b")>>) >>]

ReqDatas == {NoReqData, OrderReqData}

NoUploads == [defined |-> FALSE, files |-> <<>>]

OneUpload == [defined |-> TRUE, files |-> << [key |-> "image", path |-> "img.png"] >>]

UploadsChoices == {NoUploads, OneUpload}

\* JSON.stringify(reqdata) for an object of scalar and array fields.
JSONStringify(reqdata) ==
  LET val(f) == IF f.isArray
                THEN "[" \o JoinWith([i \in 1..Len(f.items) |-> JSONScalar(f.items[i])], ",") \o "]"
                ELSE JSONScalar(f.items[1])
      member(f) == "\"" \o f.key \o "\":" \o val(f)
  IN "{" \o JoinWith([i \in 1..Len(reqdata.fields) |-> member(reqdata.fields[i])], ",") \o "}"

\* The FormData parts appended for reqdata: an array is joined with commas.
FormFields(reqdata) ==
  [i \in 1..Len(reqdata.fields) |->
     LET f == reqdata.fields[i]
     IN [name  |-> f.key,
         value |-> IF f.isArray
                   THEN JoinWith([j \in 1..Len(f.items) |-> ToStr(f.items[j])], ",")
                   ELSE ToStr(f.items[1]),
         file  |-> FALSE]]

\* The file parts appended for uploads.
FormFiles(uploads) ==
  [i \in 1..Len(uploads.files) |->
     [name |-> uploads.files[i].key, value |-> uploads.files[i].path, file |-> TRUE]]

NullBody == [kind |-> "null", text |-> "", parts |-> <<>>]

Threw(msg) == [ok |-> FALSE, err |-> msg, body |-> NullBody]

Returned(b) == [ok |-> TRUE, err |-> "", body |-> b]

RecognizedBodyMethods == {"POST", "PUT", "PATCH", "DELETE", "HEAD", "OPTIONS", "CONNECT"}

\* The reqformat guard of genReqBody as written: it tests method against "JSON".
ReqFormatAccepted(method, reqformat) == reqformat = "FORM" \/ method = "JSON"

\* genReqBody(opts): the body, or the Error thrown.
genReqBody(method, reqdata, reqformat, uploads) ==
  IF method = "GET" THEN Threw("genReqBody: should not run when requesting in GET")
  ELSE IF method \notin RecognizedBodyMethods THEN Threw("genReqBody: opts.method is undefined")
  ELSE IF ~reqdata.defined THEN Threw("genReqBody: opts.reqdata is undefined")
  ELSE IF ~ReqFormatAccepted(method, reqformat)
    THEN Threw("genReqBody: opts.reqformat must be FORM or JSON")
  ELSE IF reqformat = "FORM"
    THEN Returned([kind  |-> "form",
                   text  |-> "",
                   parts |-> FormFields(reqdata)
                             \o (IF method \in {"POST", "PUT"} /\ uploads.defined
                                 THEN FormFiles(uploads) ELSE <<>>)])
  ELSE IF uploads.defined THEN Threw("genReqBody: cannot upload files with data in JSON format")
  ELSE Returned([kind |-> "json", text |-> JSONStringify(reqdata), parts |-> <<>>])

(***************************************************************************)
(* Rows and expected rows.  A stored row has the columns id and status.    *)
(* An expected value is a literal, the object Restament.not returns, or a  *)
(* callable; an expected row lists its own properties in order.            *)
(***************************************************************************)
True == [t |-> "boolean", s |-> "", n |-> 1]

False == [t |-> "boolean", s |-> "", n |-> 0]

Row(id, status) == [id |-> Num(id), status |-> status]

\* record[key]
Get(record, key) ==
  CASE key = "id"     -> record.id
    [] key = "status" -> record.status
    [] OTHER          -> Undefined

Lit(v) == [kind |-> "literal", lit |-> v, values |-> <<>>, fn |-> ""]

Pred(name) == [kind |-> "function", lit |-> Undefined, values |-> <<>>, fn |-> name]

\* Restament.not(v1, ..., vn): {type: "not", values: [v1, ..., vn]}
not(args) == [kind |-> "not", lit |-> Undefined, values |-> args, fn |-> ""]

Prop(key, exp) == [key |-> key, exp |-> exp]

\* A test function of the caller applied to the actual value.
Apply(fn, actual) ==
  CASE fn = "isActive" -> IF StrictEquals(actual, Str("active")) THEN True ELSE False
    [] fn = "truthy"   -> Num(1)
    [] OTHER           -> Undefined

\* typeof expectedColumnData
ExpectedTypeOf(e) ==
  CASE e.kind = "not"      -> "object"
    [] e.kind = "function" -> "function"
    [] OTHER               -> TypeOf(e.lit)

\* The comparison assertDB makes for Restament.not: values === actual, where
\* values is the array that not() allocated.
NotRejects(e, actual) == StrictEquals(ArrayRef("not.values"), actual)

\* A test function held to a truthy result instead of to true.
PredicateRejectsFalsy(e, actual) ==
  Apply(e.fn, actual) \in {False, Undefined, Null, Num(0), Str("")}

\* The comparison assertDB makes for a test function: its result !== true.
PredicateRejects(e, actual) == ~StrictEquals(Apply(e.fn, actual), True)

\* One field of assertDB's inner loop: "" when the field passes, else the
\* rejection (or the TypeError of reading .type of null).
FieldCheck(e, actual) ==
  IF ExpectedTypeOf(e) = "object" /\ e.kind = "literal"
    THEN "TypeError: cannot read property type of null"
  ELSE IF ExpectedTypeOf(e) = "object" /\ e.kind = "not"
    THEN IF NotRejects(e, actual) THEN "Assertion Error: data is expected NOT to be" ELSE ""
  ELSE IF ExpectedTypeOf(e) = "function"
    THEN IF PredicateRejects(e, actual)
         THEN "Assertion Error: data is expected to pass test function" ELSE ""
  ELSE IF ~StrictEquals(e.lit, actual)
    THEN "Assertion Error: data is expected to be" ELSE ""

\* A row check that goes through the columns of the record instead of the
\* properties of the expected row: a column that is not named is expected
\* undefined.
RowCheckEveryColumn(props, record) ==
  LET exp(key) == IF \E p \in DOMAIN props : props[p].key = key
                  THEN props[CHOOSE p \in DOMAIN props : props[p].key = key].exp
                  ELSE Lit(Undefined)
      r == FieldCheck(exp("id"), record.id)
  IN IF r # "" THEN r ELSE FieldCheck(exp("status"), record.status)

RECURSIVE RowCheck(_, _)
\* The properties of one expected row against one record, first failure wins.
RowCheck(props, record) ==
  IF props = <<>> THEN ""
  ELSE LET r == FieldCheck(props[1].exp, Get(record, props[1].key))
       IN IF r # "" THEN r ELSE RowCheck(Tail(props), record)

RECURSIVE RecordsCheck(_, _, _)
\* for (i = 0; i < records.length; i++): record i against result.data[i].
RecordsCheck(expected, records, i) ==
  IF i > Len(records) THEN ""
  ELSE IF i > Len(expected) THEN "TypeError: cannot convert undefined to object"
  ELSE LET r == RowCheck(expected[i], records[i])
       IN IF r # "" THEN r ELSE RecordsCheck(expected, records, i + 1)

RECURSIVE InsertById(_, _)
InsertById(sorted, r) ==
  IF sorted = <<>> THEN <<r>>
  ELSE IF r.id.n < sorted[1].id.n THEN <<r>> \o sorted
  ELSE <<sorted[1]>> \o InsertById(Tail(sorted), r)

\* The records as the storage returned them, not sorted.
SortByIdNone(records) == records

RECURSIVE SortById(_)
\* records.sort((r1, r2) => r1.id - r2.id)
SortById(records) ==
  IF records = <<>> THEN <<>>
  ELSE InsertById(SortById(SubSeq(records, 1, Len(records) - 1)), records[Len(records)])

\* Array.isArray(x) ? x : [x], for mock.data and result.data.
AsArray(d) == IF d.isArray THEN d.many ELSE <<d.one>>

(***************************************************************************)
(* Table specifications (test.db[i]).                                      *)
(***************************************************************************)
OneRow(row) == [isArray |-> FALSE, one |-> row, many |-> <<>>]

ManyRows(rows) == [isArray |-> TRUE, one |-> Row(0, Undefined), many |-> rows]

OneExpected(props) == [defined |-> TRUE, isArray |-> FALSE, one |-> props, many |-> <<>>]

ManyExpected(rows) == [defined |-> TRUE, isArray |-> TRUE, one |-> <<>>, many |-> rows]

NoExpected == [defined |-> FALSE, isArray |-> TRUE, one |-> <<>>, many |-> <<>>]

NoList == [defined |-> FALSE, items |-> <<>>]

List(items) == [defined |-> TRUE, items |-> items]

NoMock == [defined |-> FALSE, data |-> ManyRows(<<>>), uploads |-> NoList]

Mock(data, uploads) == [defined |-> TRUE, data |-> data, uploads |-> uploads]

NoResult == [defined |-> FALSE, data |-> NoExpected, uploads |-> NoList]

Result(data, uploads) == [defined |-> TRUE, data |-> data, uploads |-> uploads]

Table(name, mock, result) == [tablename |-> name, mock |-> mock, result |-> result]

TableNames == {"items", "users"}

\* mock.uploads and result.uploads entries: src is copied to uploadDir/dest;
\* uploadDir/filename is compared with original.
Bg1 == [src |-> "uploads/bg1.png", dest |-> "bg/1"]

Pair1 == [filename |-> "bg/1", original |-> "uploads/bg1.png"]

Pair2 == [filename |-> "bg/2", original |-> "uploads/bg2.png"]

\* The db values the test cases are drawn from.
DbPlain == << Table("items", NoMock, NoResult) >>

DbMockOnly ==
  << Table("items",
           Mock(ManyRows(<< Row(1, Str("blocked")), Row(2, Str("active")) >>), NoList),
           NoResult) >>

DbMockUploads ==
  << Table("items", Mock(OneRow(Row(1, Str("active"))), List(<<Bg1>>)), NoResult) >>

DbNot ==
  << Table("items",
           Mock(OneRow(Row(1, Str("blocked"))), NoList),
           Result(OneExpected(<< Prop("status", not(<<Str("blocked")>>)) >>), NoList)) >>

DbLiteral ==
  << Table("items",
           Mock(OneRow(Row(1, Str("active"))), NoList),
           Result(ManyExpected(<< << Prop("id", Lit(Num(1))), Prop("status", Lit(Str("active"))) >> >>),
                  NoList)) >>

DbResultUploads ==
  << Table("items",
           Mock(OneRow(Row(1, Str("active"))), List(<<Bg1>>)),
           Result(NoExpected, List(<<Pair1>>))) >>

\* Two tables, the first without a mock entry.
DbTwoTables ==
  << Table("users", NoMock, NoResult),
     Table("items", Mock(OneRow(Row(1, Str("active"))), List(<<Bg1>>)), NoResult) >>

\* result.uploads with two pairs, and with none (an empty array).
DbTwoPairs ==
  << Table("items",
           Mock(OneRow(Row(1, Str("active"))), List(<<Bg1>>)),
           Result(NoExpected, List(<<Pair1, Pair2>>))) >>

DbNoPairs ==
  << Table("items", Mock(OneRow(Row(1, Str("active"))), NoList), Result(NoExpected, List(<<>>))) >>

\* Two rows, expected in ascending id order.
DbTwoRows ==
  << Table("items",
           Mock(ManyRows(<< Row(1, Str("blocked")), Row(2, Str("active")) >>), NoList),
           Result(ManyExpected(<< << Prop("id", Lit(Num(1))), Prop("status", Lit(Str("blocked"))) >>,
                                  << Prop("id", Lit(Num(2))), Prop("status", Lit(Str("active"))) >> >>),
                  NoList)) >>

\* A column holding NULL, expected as the literal null.
DbNullLiteral ==
  << Table("items",
           Mock(OneRow(Row(1, Null)), NoList),
           Result(OneExpected(<< Prop("status", Lit(Null)) >>), NoList)) >>

\* Test functions: one returning true for the stored value, one returning 1.
DbPredicate ==
  << Table("items",
           Mock(OneRow(Row(1, Str("active"))), NoList),
           Result(OneExpected(<< Prop("status", Pred("isActive")) >>), NoList)) >>

DbTruthy ==
  << Table("items",
           Mock(OneRow(Row(1, Str("active"))), NoList),
           Result(OneExpected(<< Prop("status", Pred("truthy")) >>), NoList)) >>

\* A row is expected in a table that nothing seeds.
DbExpectMissing ==
  << Table("items",
           NoMock,
           Result(OneExpected(<< Prop("status", Lit(Str("active"))) >>), NoList)) >>

DbChoices ==
  {DbPlain, DbMockOnly, DbMockUploads, DbNot, DbLiteral, DbResultUploads,
   DbTwoTables, DbTwoPairs, DbNoPairs, DbTwoRows, DbNullLiteral, DbPredicate, DbTruthy,
   DbExpectMissing}

(***************************************************************************)
(* Response bodies and their JSON.parse.  A parsed document is a value     *)
(* whose payload is its canonical text, so that deep equality is equality. *)
(***************************************************************************)
Doc(canonical) == [t |-> "json", s |-> canonical, n |-> 0]

ItemsDoc == Doc("[{\"id\":\"1\"}]")

BodyTexts == {"[ {\"id\": \"1\"} ]", "null", "Not found"}

\* JSON.parse(body) succeeds
IsJSON(body) == body \in {"[ {\"id\": \"1\"} ]", "null", "[]"}

\* JSON.parse(body), for a body that parses
JSONParse(body) ==
  CASE body = "[ {\"id\": \"1\"} ]" -> ItemsDoc
    [] body = "null"                -> Null
    [] OTHER                        -> Doc("[]")

\* The rejection of request() for a body that JSON.parse refuses, without the
\* body text.
NotJSONErrorBare(body) == "Response body is not JSON!"

\* The rejection of request() for a body that JSON.parse refuses.
NotJSONError(body) ==
  "Response body is not JSON! Response body is:\n--------------------\n"
    \o body \o "\n--------------------\n"

\* A resdata check that skips every falsy resdata, null included.
ResdataCheckedIfTruthy(resdata) == resdata \notin {Undefined, Null}

\* typeof test.resdata !== "undefined"
ResdataChecked(resdata) == resdata # Undefined

\* assert.deepStrictEqual(actual, expected) does not throw
DeepStrictEqual(actual, expected) == actual = expected

Statuses == {200, 404}

(***************************************************************************)
(* Test cases.  The request family varies what Restament.test and          *)
(* genReqBody read of the request; the fixture family varies tables and    *)
(* hooks.                                                                  *)
(***************************************************************************)
Methods == {"GET", "POST", "PUT", "PATCH", "DELETE", "HEAD", "OPTIONS", "CONNECT", "TRACE"}

ReqFormats == {"JSON", "FORM", "XML"}

TestCase(method, reqformat, reqdata, uploads, resdata, before, after, db) ==
  [method |-> method, reqformat |-> reqformat, reqdata |-> reqdata, uploads |-> uploads,
   status |-> 200, resdata |-> resdata, before |-> before, after |-> after, db |-> db]

RequestCases ==
  { TestCase(m, f, d, u, r, FALSE, FALSE, DbPlain) :
      m \in Methods, f \in ReqFormats, d \in ReqDatas, u \in UploadsChoices,
      r \in {Undefined, ItemsDoc} }

FixtureCases ==
  { TestCase(m, "FORM", OrderReqData, NoUploads, r, b, a, db) :
      m \in {"GET", "POST"}, r \in {Undefined, Null, ItemsDoc},
      b \in BOOLEAN, a \in BOOLEAN, db \in DbChoices }

TestCases == RequestCases \cup FixtureCases

\* A batch of several test cases draws them from these.
BatchCases ==
  { TestCase("GET", "FORM", OrderReqData, NoUploads, Undefined, FALSE, FALSE, db) :
      db \in {DbPlain, DbMockUploads, DbTruthy} }

\* The test cases a batch of n may hold.
CasesOf(n) == IF n = 1 THEN TestCases ELSE BatchCases

\* The constructor's config: whether uploadDir and logDir were given.
Configs == { [uploadDir |-> u, logDir |-> l] : u \in BOOLEAN, l \in BOOLEAN }

(***************************************************************************)
(* State.                                                                  *)
(***************************************************************************)
VARIABLES
  config,    \* the constructor's config
  ntests,    \* tests.length
  idx,       \* the test case the for loop of test() is at (0: none yet)
  tc,        \* that test case
  pc,        \* where test() is suspended
  cl,        \* cleanup: the model and the raw statement awaited
  tables,    \* the database: rows and AUTO_INCREMENT of each table
  staged,    \* the files under uploadDir
  diag,      \* the diagnostic copies under tmp/images
  seedOps,   \* the save() and fs.copy calls createMock started
  diffOps,   \* the imageDiff calls assertUploads started; once called back, the
             \* verdict and which of the two files existed
  req,       \* the request handed to fetch
  resp,      \* the response object request() builds
  dbp,       \* assertDB: the promise of each table
  upp,       \* assertUploads: the promise of each table
  fetched,   \* assertDB: the sorted records of each table, once fetched
  log,       \* the steps started for the current test case, in order
  prev,      \* the test case the loop ran before, and what its collaborators did
  outcome    \* per test case: "none", "pass" or the error test() threw

vars == <<config, ntests, idx, tc, pc, cl, tables, staged, diag, seedOps, diffOps,
          req, resp, dbp, upp, fetched, log, prev, outcome>>

NoTest == TestCase("GET", "FORM", NoReqData, NoUploads, Undefined, FALSE, FALSE, DbPlain)

NoRequest ==
  [sent |-> FALSE, method |-> "", contentType |-> "", body |-> NullBody]

NoResponse == [status |-> 0, body |-> "", parsed |-> FALSE, json |-> Undefined]

Max(a, b) == IF a >= b THEN a ELSE b

\* What an earlier run may have left behind.
StaleTable == [rows |-> << Row(7, Str("stale")) >>, autoinc |-> 8]

EmptyTable == [rows |-> <<>>, autoinc |-> 1]

Init ==
  /\ config \in Configs
  /\ ntests \in 0..MaxTests
  /\ idx = 0
  /\ tc = NoTest
  /\ pc = "loop"
  /\ cl = [i |-> 1, phase |-> "delete"]
  /\ \E stale \in BOOLEAN :
       /\ tables = [name \in TableNames |-> IF stale THEN StaleTable ELSE EmptyTable]
       /\ staged = IF stale THEN {"bg/stale"} ELSE {}
  /\ diag = {}
  /\ seedOps = <<>>
  /\ diffOps = <<>>
  /\ req = NoRequest
  /\ resp = NoResponse
  /\ dbp = <<>>
  /\ upp = <<>>
  /\ fetched = <<>>
  /\ log = <<>>
  /\ prev = [tc |-> NoTest, status |-> 0, body |-> "", clean |-> TRUE]
  /\ outcome = [i \in 1..ntests |-> "none"]

\* The loop body with createMock called ahead of the before hook.
StepAfterSeedFirst(step) ==
  CASE step = "cleanup"     -> "seed"
    [] step = "seed"        -> "before"
    [] step = "before"      -> "dispatch"
    [] step = "dispatch"    -> "fetch"
    [] step = "fetch"       -> "text"
    [] step = "assertState" -> "after"
    [] OTHER                -> "loop"

\* test(), lines 127-230: the statement that runs once a step of the loop body
\* is over (each is awaited before the next one is reached).
StepAfter(step) ==
  CASE step = "cleanup"     -> "before"
    [] step = "before"      -> "seed"
    [] step = "seed"        -> "dispatch"
    [] step = "dispatch"    -> "fetch"
    [] step = "fetch"       -> "text"
    [] step = "assertState" -> "after"
    [] OTHER                -> "loop"

\* A test() that records the failure of a test case and goes on with the loop.
FailedContinues(i, reason) ==
  /\ pc' = "loop"
  /\ outcome' = [outcome EXCEPT ![i] = reason]

\* test() throws: the promise it returned is rejected and the loop is left.
Failed(i, reason) ==
  /\ pc' = "rejected"
  /\ outcome' = [outcome EXCEPT ![i] = reason]

\* The operations of a sequence that have not settled.
Pending(ops) == SelectSeq(ops, LAMBDA op : op.st = "pending")

(***************************************************************************)
(* test(), lines 97-127: the loop head, the normalisation of test.db, the  *)
(* uploadDir/logDir check, and the synchronous start of cleanup            *)
(* (fs.emptyDirSync, then the first DELETE is issued).                     *)
(***************************************************************************)
RECURSIVE UploadDirCheck(_)
\* Lines 120-124, entered when uploadDir or logDir is missing.
UploadDirCheck(dbtables) ==
  IF dbtables = <<>> THEN ""
  ELSE IF ~dbtables[1].mock.defined
    THEN "TypeError: cannot read property uploads of undefined"
  ELSE IF dbtables[1].mock.uploads.defined
    THEN "uploadDir and logDir must be specified in constructor when test includes mock.uploads"
  ELSE UploadDirCheck(Tail(dbtables))

\* Line 98, inside the loop body: tests is an array by then, so the guard is
\* its length test.
TestsGuard(n) == n <= 0

NextTest ==
  /\ pc = "loop"
  /\ idx < ntests
  /\ idx' = idx + 1
  /\ \E t \in CasesOf(ntests) :
       /\ tc' = t
       /\ LET pre == IF TestsGuard(ntests)
                       THEN "Test object has to be object or array of objects!"
                     ELSE IF ~config.uploadDir \/ ~config.logDir THEN UploadDirCheck(t.db)
                     ELSE ""
          IN IF pre # ""
               THEN /\ Failed(idx + 1, pre)
                    /\ log' = <<>>
                    /\ UNCHANGED staged
             ELSE IF ~config.uploadDir
               THEN /\ Failed(idx + 1, "TypeError: emptyDirSync of undefined")
                    /\ log' = <<"reset">>
                    /\ UNCHANGED staged
             ELSE /\ staged' = {}
                  /\ pc' = "cleanup"
                  /\ log' = <<"reset">>
                  /\ UNCHANGED outcome
  /\ cl' = [i |-> 1, phase |-> "delete"]
  /\ seedOps' = Pending(seedOps)
  /\ diffOps' = Pending(diffOps)
  /\ req' = NoRequest
  /\ resp' = NoResponse
  /\ dbp' = <<>>
  /\ upp' = <<>>
  /\ fetched' = <<>>
  /\ prev' = [tc     |-> tc,
              status |-> resp.status,
              body   |-> resp.body,
              clean  |-> \A i \in DOMAIN seedOps : seedOps[i].st # "failed"]
  /\ UNCHANGED <<config, ntests, tables, diag>>

\* The AUTO_INCREMENT that ALTER TABLE ... AUTO_INCREMENT = 1 leaves: 1 on an
\* empty table, else one more than the largest id.
RECURSIVE MaxId(_)
MaxId(rows) == IF rows = <<>> THEN 0 ELSE Max(rows[1].id.n, MaxId(Tail(rows)))

\* cleanup(), lines 365-372: one awaited raw statement settles.
CleanupStep ==
  /\ pc = "cleanup"
  /\ LET name == tc.db[cl.i].tablename
     IN \/ /\ Failed(idx, "storage error in cleanup")
           /\ UNCHANGED <<tables, cl>>
        \/ /\ cl.phase = "delete"
           /\ tables' = [tables EXCEPT ![name].rows = <<>>]
           /\ cl' = [cl EXCEPT !.phase = "alter"]
           /\ UNCHANGED <<pc, outcome>>
        \/ /\ cl.phase = "alter"
           /\ tables' = [tables EXCEPT ![name].autoinc = MaxId(tables[name].rows) + 1]
           /\ IF cl.i < Len(tc.db)
                THEN cl' = [i |-> cl.i + 1, phase |-> "delete"] /\ pc' = pc
                ELSE cl' = cl /\ pc' = StepAfter("cleanup")
           /\ UNCHANGED outcome
  /\ UNCHANGED <<config, prev, fetched, ntests, idx, tc, staged, diag, seedOps, diffOps, req, resp,
                 dbp, upp, log>>

\* What a hook does when called: returns a plain value, returns a promise, throws.
HookBehaviours == {"value", "promise", "throw"}

\* test(), lines 129-135: test.before is called.
BeforeHook ==
  /\ pc = "before"
  /\ IF ~tc.before
       THEN pc' = StepAfter("before") /\ UNCHANGED <<log, outcome>>
       ELSE /\ log' = Append(log, "before")
            /\ \E b \in HookBehaviours :
                 CASE b = "throw"   -> Failed(idx, "before hook threw")
                   [] b = "promise" -> pc' = "beforeAwait" /\ UNCHANGED outcome
                   [] OTHER         -> pc' = StepAfter("before") /\ UNCHANGED outcome
  /\ UNCHANGED <<config, prev, fetched, ntests, idx, tc, cl, tables, staged, diag, seedOps, diffOps,
                 req, resp, dbp, upp>>

\* await beforeResult settles.
BeforeSettle ==
  /\ pc = "beforeAwait"
  /\ \/ pc' = StepAfter("before") /\ UNCHANGED outcome
     \/ Failed(idx, "before hook rejected")
  /\ UNCHANGED <<config, prev, fetched, ntests, idx, tc, cl, tables, staged, diag, seedOps, diffOps,
                 req, resp, dbp, upp, log>>

(***************************************************************************)
(* createMock(), lines 381-420.  Every save() and fs.copy is started in    *)
(* the callback of dbtables.map; the promises (procs, and Promise.all of   *)
(* them) are the callback's return value, which map collects and           *)
(* createMock drops: the async function returns at once.                   *)
(***************************************************************************)
InsertOp(k, name, row) ==
  [test |-> k, kind |-> "insert", table |-> name, row |-> row, dest |-> "", st |-> "pending"]

CopyOp(k, name, upload) ==
  [test |-> k, kind |-> "copy", table |-> name, row |-> Row(0, Undefined),
   dest |-> upload.dest, st |-> "pending"]

\* The operations the map callback starts for one dbtable.
TableSeedOps(dbtable, k) ==
  LET rows    == AsArray(dbtable.mock.data)
      inserts == IF dbtable.mock.defined
                 THEN [i \in 1..Len(rows) |-> InsertOp(k, dbtable.tablename, rows[i])]
                 ELSE <<>>
      copies  == IF dbtable.mock.defined /\ dbtable.mock.uploads.defined
                 THEN [i \in 1..Len(dbtable.mock.uploads.items) |->
                         CopyOp(k, dbtable.tablename, dbtable.mock.uploads.items[i])]
                 ELSE <<>>
  IN inserts \o copies

RECURSIVE StartedSeedOps(_, _)
StartedSeedOps(dbtables, k) ==
  IF dbtables = <<>> THEN <<>>
  ELSE TableSeedOps(dbtables[1], k) \o StartedSeedOps(Tail(dbtables), k)

CreateMock ==
  /\ pc = "seed"
  /\ seedOps' = seedOps \o StartedSeedOps(tc.db, idx)
  /\ log' = Append(log, "seed")
  /\ pc' = StepAfter("seed")
  /\ UNCHANGED <<config, prev, fetched, ntests, idx, tc, cl, tables, staged, diag, diffOps, req, resp,
                 dbp, upp, outcome>>

\* A save() or fs.copy settles in the storage or the filesystem.  Its promise
\* is awaited by nobody: a rejection reaches no handler of test().
SeedSettle ==
  /\ \E i \in DOMAIN seedOps :
       LET op == seedOps[i]
       IN /\ op.st = "pending"
          /\ \/ /\ seedOps' = [seedOps EXCEPT ![i].st = "failed"]
                /\ UNCHANGED <<tables, staged>>
             \/ /\ op.kind = "insert"
                /\ \A j \in DOMAIN tables[op.table].rows :
                     tables[op.table].rows[j].id # op.row.id
                /\ tables' = [tables EXCEPT ![op.table] =
                                [rows    |-> Append(@.rows, op.row),
                                 autoinc |-> Max(@.autoinc, op.row.id.n + 1)]]
                /\ seedOps' = [seedOps EXCEPT ![i].st = "done"]
                /\ UNCHANGED staged
             \/ /\ op.kind = "copy"
                /\ staged' = staged \cup {op.dest}
                /\ seedOps' = [seedOps EXCEPT ![i].st = "done"]
                /\ UNCHANGED tables
  /\ UNCHANGED <<config, prev, fetched, ntests, idx, tc, pc, cl, diag, diffOps, req, resp, dbp, upp,
                 log, outcome>>

(***************************************************************************)
(* test(), lines 139-200: the reqformat and method switches, genReqBody    *)
(* unless the method is GET, and request() up to the call of fetch.        *)
(***************************************************************************)
HttpMethods == {"GET", "POST", "PUT", "PATCH", "DELETE", "HEAD", "OPTIONS", "CONNECT"}

\* request(), lines 496-504
ContentType(reqformat, upload) ==
  IF reqformat = "JSON" THEN "application/json"
  ELSE IF upload THEN "multipart/form-data"
  ELSE "application/x-www-form-urlencoded"

\* The request body built by genReqBody for every method, GET included.
RequestBodyAlways(t) == genReqBody(t.method, t.reqdata, t.reqformat, t.uploads)

\* Lines 183-192: the request body of a test case.
RequestBody(t) ==
  IF t.method = "GET" THEN Returned(NullBody)
  ELSE genReqBody(t.method, t.reqdata, t.reqformat, t.uploads)

Dispatch ==
  /\ pc = "dispatch"
  /\ IF tc.reqformat \notin {"FORM", "JSON"}
       THEN Failed(idx, "reqformat only supports FORM and JSON") /\ UNCHANGED <<req, log>>
     ELSE IF tc.method \notin HttpMethods
       THEN Failed(idx, "method is not a HTTP method") /\ UNCHANGED <<req, log>>
     ELSE IF ~RequestBody(tc).ok
       THEN Failed(idx, RequestBody(tc).err) /\ UNCHANGED <<req, log>>
     ELSE /\ req' = [sent        |-> TRUE,
                     method      |-> tc.method,
                     contentType |-> ContentType(tc.reqformat, tc.uploads.defined),
                     body        |-> RequestBody(tc).body]
          /\ log' = Append(log, "dispatch")
          /\ pc' = StepAfter("dispatch")
          /\ UNCHANGED outcome
  /\ UNCHANGED <<config, prev, fetched, ntests, idx, tc, cl, tables, staged, diag, seedOps, diffOps,
                 resp, dbp, upp>>

\* request(), lines 506-514: fetch settles with the server's status and body.
FetchSettle ==
  /\ pc = "fetch"
  /\ \/ Failed(idx, "network error") /\ UNCHANGED resp
     \/ /\ \E st \in Statuses, body \in BodyTexts :
             resp' = [status |-> st, body |-> body, parsed |-> FALSE, json |-> Undefined]
        /\ pc' = StepAfter("fetch")
        /\ UNCHANGED outcome
  /\ UNCHANGED <<config, prev, fetched, ntests, idx, tc, cl, tables, staged, diag, seedOps, diffOps,
                 req, dbp, upp, log>>

(***************************************************************************)
(* assertDB and assertUploads start (lines 240-246 and 295-312).           *)
(***************************************************************************)
\* An assertDB that fetches every table, with or without result.data.
DbPromiseFetchAlways(dbtable) == "pending"

\* assertDB: a table without result.data resolves at once, else fetchAll runs.
DbPromise(dbtable) ==
  IF ~dbtable.result.defined \/ ~dbtable.result.data.defined THEN "resolved" ELSE "pending"

\* assertUploads: a table without result.uploads resolves at once; else one
\* imageDiff per entry is started, and path.join throws on a missing directory.
UploadPromise(dbtable) ==
  IF ~dbtable.result.defined \/ ~dbtable.result.uploads.defined THEN "resolved"
  ELSE IF dbtable.result.uploads.items # <<>> /\ (~config.uploadDir \/ ~config.logDir)
    THEN "rejected"
  ELSE "pending"

DiffOp(k, i, pair) ==
  [test |-> k, table |-> i, filename |-> pair.filename, st |-> "pending",
   uploaded |-> FALSE, original |-> FALSE]

RECURSIVE StartedDiffOps(_, _, _)
StartedDiffOps(dbtables, k, i) ==
  IF i > Len(dbtables) THEN <<>>
  ELSE (IF UploadPromise(dbtables[i]) = "pending"
        THEN [j \in 1..Len(dbtables[i].result.uploads.items) |->
                DiffOp(k, i, dbtables[i].result.uploads.items[j])]
        ELSE <<>>)
       \o StartedDiffOps(dbtables, k, i + 1)

AllResolved(d, u) ==
  /\ \A i \in DOMAIN d : d[i] = "resolved"
  /\ \A i \in DOMAIN u : u[i] = "resolved"

(***************************************************************************)
(* request(), lines 515-531, and test(), lines 202-222: the body text      *)
(* arrives and is parsed; then the status check, the resdata check, and    *)
(* the start of assertDB and assertUploads.                                *)
(***************************************************************************)
TextSettle ==
  /\ pc = "text"
  /\ IF ~IsJSON(resp.body)
       THEN /\ Failed(idx, NotJSONError(resp.body))
            /\ UNCHANGED <<resp, dbp, upp, fetched, diffOps, log>>
     ELSE /\ resp' = [resp EXCEPT !.parsed = TRUE, !.json = JSONParse(resp.body)]
          /\ IF resp.status # tc.status
               THEN /\ Failed(idx, "Assertion Error: Status Code")
                    /\ log' = Append(log, "assertResponse")
                    /\ UNCHANGED <<dbp, upp, fetched, diffOps>>
             ELSE IF ResdataChecked(tc.resdata) /\ ~DeepStrictEqual(JSONParse(resp.body), tc.resdata)
               THEN /\ Failed(idx, "Assertion Error: response data")
                    /\ log' = Append(log, "assertResponse")
                    /\ UNCHANGED <<dbp, upp, fetched, diffOps>>
             ELSE /\ dbp' = [i \in 1..Len(tc.db) |-> DbPromise(tc.db[i])]
                  /\ upp' = [i \in 1..Len(tc.db) |-> UploadPromise(tc.db[i])]
                  /\ fetched' = [i \in 1..Len(tc.db) |-> <<>>]
                  /\ diffOps' = diffOps \o StartedDiffOps(tc.db, idx, 1)
                  /\ log' = log \o <<"assertResponse", "assertState">>
                  /\ IF \E i \in 1..Len(tc.db) : UploadPromise(tc.db[i]) = "rejected"
                       THEN Failed(idx, "TypeError: path must be a string")
                     ELSE IF AllResolved(dbp', upp')
                       THEN pc' = StepAfter("assertState") /\ UNCHANGED outcome
                     ELSE pc' = "assertState" /\ UNCHANGED outcome
  /\ UNCHANGED <<config, prev, ntests, idx, tc, cl, tables, staged, diag, seedOps, req>>

\* Promise.all of lines 219-222 after one table's promise settled.
Joined(d, u, rejection) ==
  IF pc # "assertState" THEN UNCHANGED <<pc, outcome>>
  ELSE IF rejection # "" THEN Failed(idx, rejection)
  ELSE IF AllResolved(d, u) THEN pc' = StepAfter("assertState") /\ UNCHANGED outcome
  ELSE UNCHANGED <<pc, outcome>>

\* assertDB, lines 246-285: fetchAll of one table settles.
DbFetchSettle ==
  /\ \E i \in DOMAIN dbp :
       /\ dbp[i] = "pending"
       /\ \E storageFails \in BOOLEAN :
            LET records  == SortById(tables[tc.db[i].tablename].rows)
                expected == AsArray(tc.db[i].result.data)
                verdict  == IF storageFails THEN "storage error in fetchAll"
                            ELSE RecordsCheck(expected, records, 1)
            IN /\ dbp' = [dbp EXCEPT ![i] = IF verdict = "" THEN "resolved" ELSE "rejected"]
               /\ fetched' = [fetched EXCEPT ![i] = IF storageFails THEN <<>> ELSE records]
               /\ Joined(dbp', upp, verdict)
  /\ UNCHANGED <<config, prev, ntests, idx, tc, cl, tables, staged, diag, seedOps, diffOps,
                 req, resp, upp, log>>

\* What imageDiff hands its callback.
DiffVerdicts == {"error", "same", "different"}

\* Lines 331-345: the rejection chosen by which of the two files exist.
UploadRejection(uploadedExists, originalExists) ==
  IF ~uploadedExists /\ ~originalExists
    THEN "Assertion Error: uploaded file and original file doesn't exist"
  ELSE IF ~uploadedExists THEN "Assertion Error: uploaded file doesn't exist"
  ELSE IF ~originalExists THEN "Assertion Error: original file doesn't exist"
  ELSE "Assertion Error: uploaded file and original file differs"

\* assertUploads, lines 312-349: the callback of one imageDiff.  The promise
\* of the table takes the first resolve or reject; later ones are ignored.
ImageDiffCallback ==
  /\ \E j \in DOMAIN diffOps, verdict \in DiffVerdicts, originalExists \in BOOLEAN :
       LET op             == diffOps[j]
           uploadedExists == op.filename \in staged
           own            == op.test = idx /\ op.table \in DOMAIN upp
                             /\ upp[op.table] = "pending"
           rejection      == IF verdict = "error" THEN "image-diff error"
                             ELSE IF verdict = "different"
                               THEN UploadRejection(uploadedExists, originalExists)
                             ELSE ""
       IN /\ op.st = "pending"
          /\ verdict = "same" => uploadedExists /\ originalExists
          /\ diffOps' = [diffOps EXCEPT ![j].st = verdict,
                                         ![j].uploaded = uploadedExists,
                                         ![j].original = originalExists]
          /\ diag' = IF verdict = "same" THEN diag
                     ELSE diag \cup (IF uploadedExists THEN {"uploaded"} ELSE {})
                               \cup (IF originalExists THEN {"expected"} ELSE {})
          /\ IF own
               THEN /\ upp' = [upp EXCEPT ![op.table] =
                                 IF rejection = "" THEN "resolved" ELSE "rejected"]
                    /\ Joined(dbp, upp', rejection)
               ELSE UNCHANGED <<upp, pc, outcome>>
  /\ UNCHANGED <<config, prev, fetched, ntests, idx, tc, cl, tables, staged, seedOps, req, resp, dbp, log>>

\* test(), lines 224-230: test.after is called; without a throw the loop goes on.
AfterHook ==
  /\ pc = "after"
  /\ IF ~tc.after
       THEN /\ pc' = StepAfter("after")
            /\ outcome' = [outcome EXCEPT ![idx] = "pass"]
            /\ UNCHANGED log
       ELSE /\ log' = Append(log, "after")
            /\ \E b \in HookBehaviours :
                 CASE b = "throw"   -> Failed(idx, "after hook threw")
                   [] b = "promise" -> pc' = "afterAwait" /\ UNCHANGED outcome
                   [] OTHER         -> /\ pc' = StepAfter("after")
                                       /\ outcome' = [outcome EXCEPT ![idx] = "pass"]
  /\ UNCHANGED <<config, prev, fetched, ntests, idx, tc, cl, tables, staged, diag, seedOps, diffOps,
                 req, resp, dbp, upp>>

\* await afterResult settles.
AfterSettle ==
  /\ pc = "afterAwait"
  /\ \/ pc' = StepAfter("after") /\ outcome' = [outcome EXCEPT ![idx] = "pass"]
     \/ Failed(idx, "after hook rejected")
  /\ UNCHANGED <<config, prev, fetched, ntests, idx, tc, cl, tables, staged, diag, seedOps, diffOps,
                 req, resp, dbp, upp, log>>

\* The for loop is exhausted: the promise test() returned resolves.
Finish ==
  /\ pc = "loop"
  /\ idx = ntests
  /\ pc' = "resolved"
  /\ UNCHANGED <<config, prev, fetched, ntests, idx, tc, cl, tables, staged, diag, seedOps, diffOps,
                 req, resp, dbp, upp, log, outcome>>

Next ==
  \/ NextTest
  \/ CleanupStep
  \/ BeforeHook
  \/ BeforeSettle
  \/ CreateMock
  \/ SeedSettle
  \/ Dispatch
  \/ FetchSettle
  \/ TextSettle
  \/ DbFetchSettle
  \/ ImageDiffCallback
  \/ AfterHook
  \/ AfterSettle
  \/ Finish

Spec == Init /\ [][Next]_vars

(***************************************************************************)
(* Properties.                                                             *)
(***************************************************************************)
Range(f) == { f[i] : i \in DOMAIN f }

\* The seeding operations createMock started for the current test case.
OwnSeedOps == { i \in DOMAIN seedOps : seedOps[i].test = idx }

\* The Dispatch step of the current test case has run (it sent or it threw).
DispatchDone == "seed" \in Range(log) /\ pc # "dispatch"

AssertionFailures ==
  { "Assertion Error: Status Code",
    "Assertion Error: response data",
    "Assertion Error: data is expected NOT to be",
    "Assertion Error: data is expected to pass test function",
    "Assertion Error: data is expected to be",
    "Assertion Error: uploaded file and original file doesn't exist",
    "Assertion Error: uploaded file doesn't exist",
    "Assertion Error: original file doesn't exist",
    "Assertion Error: uploaded file and original file differs" }

ConfigurationErrors ==
  { "uploadDir and logDir must be specified in constructor when test includes mock.uploads",
    "reqformat only supports FORM and JSON",
    "method is not a HTTP method",
    "genReqBody: should not run when requesting in GET",
    "genReqBody: opts.method is undefined",
    "genReqBody: opts.reqdata is undefined",
    "genReqBody: opts.reqformat must be FORM or JSON",
    "genReqBody: cannot upload files with data in JSON format" }

\* C1: once the HTTP request of a test case has been sent, every insert and
\* every file copy that createMock started for that test case has completed.
C1_SeedsCompleteBeforeRequest ==
  req.sent => \A i \in OwnSeedOps : seedOps[i].st # "pending"

\* C2: a failed insert or copy of the test case means that its request is never
\* sent and that the test case does not pass.
C2_SeedFailureIsFatal ==
  (\E i \in OwnSeedOps : seedOps[i].st = "failed")
    => ~req.sent /\ outcome[idx] # "pass"

StepRank(step) ==
  CASE step = "reset"          -> 1
    [] step = "before"         -> 2
    [] step = "seed"           -> 3
    [] step = "dispatch"       -> 4
    [] step = "assertResponse" -> 5
    [] step = "assertState"    -> 6
    [] OTHER                   -> 7

\* C3: the steps started for one test case are in the order reset, before-hook,
\* seed, dispatch, response assertion, persisted-state assertion, after-hook:
\* none is started twice, none is started after a later one.
C3_StepsInOrder ==
  \A i, j \in DOMAIN log : i < j => StepRank(log[i]) < StepRank(log[j])

\* A test case with both hooks ran all seven steps.
C3_Witness ==
  log = <<"reset", "before", "seed", "dispatch", "assertResponse", "assertState", "after">>

\* C4: when test() is over, every test case of the batch has an outcome of its
\* own, also those after a failed one.
C4_LaterTestsStillRun ==
  (pc \in {"resolved", "rejected"} /\ config.uploadDir /\ config.logDir)
    => \A i \in 1..ntests : outcome[i] # "none"

\* C5: a test case with an after hook that failed an assertion has had its
\* after hook called.
C5_AfterHookRunsOnAssertionFailure ==
  (pc = "rejected" /\ tc.after /\ outcome[idx] \in AssertionFailures)
    => "after" \in Range(log)

\* C6: a response whose status differs from the expected one fails the test
\* case with the status assertion failure, whatever its body text: the status
\* is checked before the body is parsed.
C6_StatusBeforeBodyParse ==
  (pc = "rejected" /\ req.sent /\ resp.status \notin {0, tc.status})
    => outcome[idx] = "Assertion Error: Status Code"

\* C7: without resdata, a response of the expected status does not fail the
\* test case on account of its body, JSON or not.
C7_NoResdataIgnoresBody ==
  (pc = "rejected" /\ tc.resdata = Undefined /\ resp.status = tc.status)
    => outcome[idx] \notin {NotJSONError(resp.body), "Assertion Error: response data"}

\* Some field of the fetched records that an expected row negates holds one of
\* the wrapped values.
NegatedValueFound(i) ==
  LET expected == AsArray(tc.db[i].result.data)
  IN \E r \in DOMAIN fetched[i] \cap DOMAIN expected :
       \E p \in DOMAIN expected[r] :
         /\ expected[r][p].exp.kind = "not"
         /\ \E v \in Range(expected[r][p].exp.values) :
              StrictEquals(v, Get(fetched[i][r], expected[r][p].key))

\* C8: the row assertion of a table does not pass when a field expected as
\* not(v1, ..., vn) holds one of the wrapped values, and fails for a negation
\* only then.
C8_NegationRejectsWrappedValue ==
  \A i \in DOMAIN dbp :
    /\ dbp[i] = "resolved" /\ tc.db[i].result.data.defined => ~NegatedValueFound(i)
    /\ (dbp[i] = "rejected" /\ outcome[idx] = "Assertion Error: data is expected NOT to be")
         => NegatedValueFound(i)

\* C9: a test case with a recognized non-GET method, reqformat JSON, reqdata and
\* no uploads is dispatched with the JSON text of reqdata as its body.
C9_JsonBodyIsDispatched ==
  (/\ DispatchDone
   /\ tc.method \in {"POST", "PUT", "PATCH", "DELETE", "HEAD", "OPTIONS", "CONNECT"}
   /\ tc.reqformat = "JSON"
   /\ tc.reqdata = OrderReqData
   /\ ~tc.uploads.defined)
    => /\ req.sent
       /\ req.body.kind = "json"
       /\ req.body.text = "{\"order\":0,\"tags\":[\"a\",\"b\"]}"

\* C10: a test case with reqformat JSON and uploads sends no request, whatever
\* its method, and fails with a configuration error once it reaches dispatch.
C10_JsonWithUploadsSendsNothing ==
  (idx > 0 /\ tc.reqformat = "JSON" /\ tc.uploads.defined)
    => /\ ~req.sent
       /\ DispatchDone => pc = "rejected" /\ outcome[idx] \in ConfigurationErrors

\* The configuration errors that the test case's own request fields cause.
RequestConfigurationErrors ==
  { "reqformat only supports FORM and JSON",
    "method is not a HTTP method",
    "genReqBody: cannot upload files with data in JSON format" }

\* C11: when a test case fails for an unrecognized method, an unrecognized
\* reqformat or uploads with JSON, nothing external has been done for it: no
\* reset, no seeding operation, no request.
C11_ConfigErrorBeforeExternalCalls ==
  (idx > 0 /\ outcome[idx] \in RequestConfigurationErrors)
    => log = <<>> /\ OwnSeedOps = {} /\ ~req.sent

HasMockUploads(db) == \E i \in DOMAIN db : db[i].mock.defined /\ db[i].mock.uploads.defined

\* C12: a test case with mock.uploads in some table, run without uploadDir or
\* without logDir, fails with the configuration error of the directory check,
\* and nothing external has been done for it.
C12_MissingDirsIsConfigurationError ==
  (idx > 0 /\ HasMockUploads(tc.db) /\ (~config.uploadDir \/ ~config.logDir))
    => /\ pc = "rejected"
       /\ outcome[idx] = "uploadDir and logDir must be specified in constructor when test includes mock.uploads"
       /\ log = <<>> /\ OwnSeedOps = {} /\ ~req.sent

\* The image comparisons assertUploads started for the current test case.
OwnDiffOps == { j \in DOMAIN diffOps : diffOps[j].test = idx }

\* C13: a test case one of whose pairs was reported different does not pass,
\* in whatever order the comparisons of its pairs completed.
C13_AnyMismatchFails ==
  (idx > 0 /\ \E j \in OwnDiffOps : diffOps[j].st = "different")
    => outcome[idx] # "pass"

\* C14: a test case that waits for its persisted-state assertions waits for a
\* call that is still to return (a fetchAll or an image comparison): it is
\* never left waiting with every collaborator call returned.
C14_WaitsOnlyForOutstandingCalls ==
  pc = "assertState"
    => \/ \E i \in DOMAIN dbp : dbp[i] = "pending"
       \/ \E j \in OwnDiffOps : diffOps[j].st = "pending"

\* C15: every operation still in progress belongs to the current test case:
\* none of an earlier test case outlives the start of the next one's reset.
C15_NoOperationOutlivesItsTestCase ==
  /\ \A i \in DOMAIN seedOps : seedOps[i].st = "pending" => seedOps[i].test = idx
  /\ \A j \in DOMAIN diffOps : diffOps[j].st = "pending" => diffOps[j].test = idx

\* C16: the inserts of one table's mock.data take effect in sequence order: a
\* later row is not inserted while an earlier row of the same table is not.
C16_InsertsTakeEffectInOrder ==
  \A i, j \in DOMAIN seedOps :
    (/\ i < j
     /\ seedOps[i].kind = "insert" /\ seedOps[j].kind = "insert"
     /\ seedOps[i].test = seedOps[j].test /\ seedOps[i].table = seedOps[j].table
     /\ seedOps[j].st = "done")
      => seedOps[i].st # "pending"

\* result.data of table i of the current test case, as an array.
ExpectedOf(i) == AsArray(tc.db[i].result.data)

\* fetchAll of table i has returned records and its row assertion is over.
Compared(i) ==
  dbp[i] # "pending" /\ tc.db[i].result.data.defined /\ fetched[i] # <<>>

\* Every expected row of table i names its id as a literal.
ExpectedHasIds(i) ==
  \A e \in DOMAIN ExpectedOf(i) :
    \E p \in DOMAIN ExpectedOf(i)[e] :
      ExpectedOf(i)[e][p].key = "id" /\ ExpectedOf(i)[e][p].exp.kind = "literal"

\* Every fetched record of table i satisfies some expected row, wherever in
\* the returned rows it stood.
MatchesById(i) ==
  \A r \in DOMAIN fetched[i] :
    \E e \in DOMAIN ExpectedOf(i) : RowCheck(ExpectedOf(i)[e], fetched[i][r]) = ""

\* C17: with expected rows that name their ids in ascending order and as many
\* fetched rows, the row assertion passes exactly when every fetched row
\* satisfies the expected row of its id, in whatever order the storage
\* returned the rows.
C17_OrderOfFetchedRowsIsIrrelevant ==
  \A i \in DOMAIN dbp :
    (Compared(i) /\ ExpectedHasIds(i) /\ Len(fetched[i]) = Len(ExpectedOf(i)))
      => (dbp[i] = "resolved" <=> MatchesById(i))

\* The storage held the two rows in descending id order and the assertion passed.
C17_Witness ==
  /\ tc.db = DbTwoRows
  /\ tables["items"].rows = << Row(2, Str("active")), Row(1, Str("blocked")) >>
  /\ dbp = <<"resolved">>
  /\ Len(fetched[1]) = 2

\* The (row, property) positions that the row assertion of table i compares.
ComparedFields(i) ==
  { <<r, p>> \in (DOMAIN fetched[i] \cap DOMAIN ExpectedOf(i)) \X {1, 2} :
      p \in DOMAIN ExpectedOf(i)[r] }

\* Every expected value of table i is of the given kind.
AllOfKind(i, kind) ==
  \A e \in DOMAIN ExpectedOf(i) :
    \A p \in DOMAIN ExpectedOf(i)[e] : ExpectedOf(i)[e][p].exp.kind = kind

\* The actual value that position f of table i is compared with.
ActualAt(i, f) == Get(fetched[i][f[1]], ExpectedOf(i)[f[1]][f[2]].key)

\* Some compared field of table i is not strictly equal to its literal.
LiteralMismatch(i) ==
  \E f \in ComparedFields(i) :
    ~StrictEquals(ExpectedOf(i)[f[1]][f[2]].exp.lit, ActualAt(i, f))

\* C18: a table whose expected values are all scalar literals (string, number,
\* boolean or null), with an expected row for every fetched row, fails its row
\* assertion exactly when some compared field is not strictly equal to its
\* literal.
C18_LiteralFailsIffNotStrictlyEqual ==
  \A i \in DOMAIN dbp :
    (Compared(i) /\ AllOfKind(i, "literal") /\ Len(fetched[i]) <= Len(ExpectedOf(i)))
      => (dbp[i] = "rejected" <=> LiteralMismatch(i))

\* Some compared field of table i does not make its test function return true.
PredicateUnmet(i) ==
  \E f \in ComparedFields(i) :
    ~StrictEquals(Apply(ExpectedOf(i)[f[1]][f[2]].exp.fn, ActualAt(i, f)), True)

\* C19: a table whose expected values are all test functions, with an expected
\* row for every fetched row, fails its row assertion exactly when some test
\* function does not return true for the actual value; a result of 1 fails.
C19_PredicateMustReturnTrue ==
  \A i \in DOMAIN dbp :
    (Compared(i) /\ AllOfKind(i, "function") /\ Len(fetched[i]) <= Len(ExpectedOf(i)))
      => (dbp[i] = "rejected" <=> PredicateUnmet(i))

\* The test function returning 1 was applied to a fetched row and failed it.
C19_Witness ==
  /\ tc.db = DbTruthy
  /\ dbp = <<"rejected">>
  /\ Len(fetched[1]) = 1
  /\ outcome[idx] = "Assertion Error: data is expected to pass test function"

\* The record with every column that the expected row does not name blanked.
Masked(record, props) ==
  LET named(key) == \E p \in DOMAIN props : props[p].key = key
  IN [id     |-> IF named("id") THEN record.id ELSE Undefined,
      status |-> IF named("status") THEN record.status ELSE Undefined]

\* The fetched records of table i, each masked by the expected row of its position.
MaskedRecords(i) ==
  [r \in DOMAIN fetched[i] |->
     IF r \in DOMAIN ExpectedOf(i) THEN Masked(fetched[i][r], ExpectedOf(i)[r])
     ELSE fetched[i][r]]

\* C20: the row assertion of a table has the outcome it would have with every
\* column that the expected row does not name blanked, so the value of such a
\* column does not matter; and a table without result.data is resolved without
\* a fetch.
C20_UnnamedFieldsAreNotChecked ==
  \A i \in DOMAIN dbp :
    /\ Compared(i)
         => (dbp[i] = "resolved" <=> RecordsCheck(ExpectedOf(i), MaskedRecords(i), 1) = "")
    /\ ~(tc.db[i].result.defined /\ tc.db[i].result.data.defined)
         => dbp[i] = "resolved" /\ fetched[i] = <<>>

\* A fetched row with an id, whose expected row names only status, passed.
C20_Witness ==
  /\ tc.db = DbPredicate
  /\ dbp = <<"resolved">>
  /\ Len(fetched[1]) = 1
  /\ fetched[1][1].id = Num(1)

\* C21: with resdata null and the expected status, the body check is made: it
\* passes (the persisted-state assertions start) for a body that parses to
\* null, and fails the test case for a body that parses to anything else.
C21_NullResdataIsChecked ==
  (idx > 0 /\ tc.resdata = Null /\ resp.parsed /\ resp.status = tc.status)
    => IF resp.json = Null
         THEN outcome[idx] # "Assertion Error: response data" /\ "assertState" \in Range(log)
         ELSE pc = "rejected" /\ outcome[idx] = "Assertion Error: response data"

\* A body parsing to a value other than null failed a test case with resdata null.
C21_Witness ==
  /\ idx > 0 /\ tc.resdata = Null /\ resp.parsed /\ resp.status = tc.status
  /\ resp.json # Null
  /\ outcome[idx] = "Assertion Error: response data"

\* part occurs in msg
Contains(msg, part) ==
  \E i \in 1..(Len(msg) - Len(part) + 1) : SubSeq(msg, i, i + Len(part) - 1) = part

\* C22: with resdata defined, the expected status and a body that is not JSON,
\* the test case fails with a failure that contains the body text and is not
\* the failure of a JSON body that differs from resdata.
C22_NonJsonBodyFailureNamesBody ==
  (/\ idx > 0 /\ tc.resdata # Undefined
   /\ resp.status = tc.status /\ ~IsJSON(resp.body) /\ pc # "text")
    => /\ pc = "rejected"
       /\ Contains(outcome[idx], resp.body)
       /\ outcome[idx] # "Assertion Error: response data"

\* The server answered 200 with the text "Not found" to a test case with resdata.
C22_Witness ==
  /\ idx > 0 /\ tc.resdata = ItemsDoc
  /\ resp.status = tc.status /\ resp.body = "Not found" /\ pc = "rejected"

\* The errors that only genReqBody throws.
GenReqBodyErrors ==
  { "genReqBody: should not run when requesting in GET",
    "genReqBody: opts.method is undefined",
    "genReqBody: opts.reqdata is undefined",
    "genReqBody: opts.reqformat must be FORM or JSON",
    "genReqBody: cannot upload files with data in JSON format" }

\* C23: a GET test case never fails with an error of genReqBody, and once it is
\* past dispatch its request has been sent with a null body, whatever its
\* reqdata, its uploads and its (recognized) reqformat.
C23_GetSendsNullBody ==
  (idx > 0 /\ tc.method = "GET")
    => /\ outcome[idx] \notin GenReqBodyErrors
       /\ req.sent => req.body = NullBody
       /\ (DispatchDone /\ tc.reqformat \in {"FORM", "JSON"}) => req.sent

\* A GET test case with reqdata, reqformat JSON and uploads was sent.
C23_Witness ==
  /\ idx > 0 /\ tc.method = "GET" /\ tc.reqformat = "JSON"
  /\ tc.reqdata = OrderReqData /\ tc.uploads = OneUpload
  /\ req.sent /\ req.body = NullBody

\* C24: when the before hook of a test case is about to be called (or seeding,
\* without a hook), the upload directory is empty and every table of the test
\* case has no rows and its AUTO_INCREMENT at 1.
C24_ResetCompleteBeforeHookAndSeed ==
  pc = "before"
    => /\ staged = {}
       /\ \A i \in DOMAIN tc.db :
            /\ tables[tc.db[i].tablename].rows = <<>>
            /\ tables[tc.db[i].tablename].autoinc = 1

\* C25: a test case that the loop runs right after the same test case passed,
\* with the server answering as before and no insert or copy failing in
\* either run, does not fail an assertion.
C25_RepeatedTestCaseRepeatsOutcome ==
  (/\ idx >= 2 /\ outcome[idx - 1] = "pass"
   /\ prev.tc = tc /\ prev.status = resp.status /\ prev.body = resp.body
   /\ prev.clean /\ \A i \in DOMAIN seedOps : seedOps[i].st # "failed")
    => outcome[idx] \notin AssertionFailures

\* No table of db has mock.uploads or result.uploads.
UsesNoUploads(db) ==
  \A i \in DOMAIN db :
    /\ ~(db[i].mock.defined /\ db[i].mock.uploads.defined)
    /\ ~(db[i].result.defined /\ db[i].result.uploads.defined)

\* C26: without uploadDir, a test case whose tables all have a mock entry and
\* use no uploads does not fail over the missing directory: reset does not
\* empty an undefined directory.
C26_NoUploadDirNeededWithoutUploads ==
  (/\ idx > 0 /\ ~config.uploadDir
   /\ UsesNoUploads(tc.db) /\ \A i \in DOMAIN tc.db : tc.db[i].mock.defined)
    => outcome[idx] # "TypeError: emptyDirSync of undefined"

\* Every table of db has a mock entry and no result entry.
OnlyMock(db) == \A i \in DOMAIN db : db[i].mock.defined /\ ~db[i].result.defined

\* C27: a GET test case whose tables carry only mock, run with uploadDir and
\* logDir, whose response has the expected status and a JSON body deep-equal
\* to resdata, goes through the persisted-state assertions without waiting
\* and passes (unless its after hook fails).
C27_MockOnlyGetPasses ==
  (/\ idx > 0 /\ tc.method = "GET" /\ OnlyMock(tc.db)
   /\ config.uploadDir /\ config.logDir
   /\ resp.parsed /\ resp.status = tc.status
   /\ tc.resdata # Undefined /\ DeepStrictEqual(resp.json, tc.resdata))
    => /\ "assertState" \in Range(log)
       /\ pc \in {"after", "afterAwait", "loop", "resolved", "rejected"}
       /\ outcome[idx] \in {"none", "pass", "after hook threw", "after hook rejected"}
       /\ pc \in {"loop", "resolved"} => outcome[idx] = "pass"

\* The test case of the specs (rows and uploads as mock, GET) passed.
C27_Witness ==
  /\ idx > 0 /\ tc.method = "GET" /\ tc.db = DbMockUploads /\ tc.resdata = ItemsDoc
  /\ config.uploadDir /\ config.logDir
  /\ log = <<"reset", "seed", "dispatch", "assertResponse", "assertState">>
  /\ outcome[idx] = "pass"

\* C28: while the promise of the before hook is awaited, seeding has not
\* started; a before hook that threw or rejected leaves the test case without
\* seeding, request and assertions; while the promise of the after hook is
\* awaited the test case has not passed, and an after hook that threw or
\* rejected leaves it failed.
C28_HooksAreAwaitedAndFatal ==
  idx > 0
    => /\ pc = "beforeAwait" => "seed" \notin Range(log) /\ OwnSeedOps = {}
       /\ outcome[idx] \in {"before hook threw", "before hook rejected"}
            => /\ pc = "rejected"
               /\ Range(log) \cap {"seed", "dispatch", "assertResponse", "assertState"} = {}
               /\ OwnSeedOps = {}
               /\ ~req.sent
       /\ pc = "afterAwait" => outcome[idx] = "none"
       /\ outcome[idx] \in {"after hook threw", "after hook rejected"}
            => pc = "rejected" /\ "assertState" \in Range(log)

\* The promise a before hook returned was awaited and rejected.
C28_Witness ==
  /\ idx > 0
  /\ outcome[idx] = "before hook rejected"
  /\ log = <<"reset", "before">>

\* The current test case has failed.
FailedNow == idx > 0 /\ outcome[idx] \notin {"none", "pass"}

IsPrefix(a, b) == Len(a) <= Len(b) /\ SubSeq(b, 1, Len(a)) = a

C30_MismatchOrErrorFailsByExistence ==
  \A j \in OwnDiffOps :
    (/\ diffOps[j].st \in {"different", "error"}
     /\ Len(tc.db[diffOps[j].table].result.uploads.items) = 1)
      => /\ outcome[idx] = UploadRejection(diffOps[j].uploaded, diffOps[j].original)
         /\ diffOps[j].uploaded => "uploaded" \in diag
         /\ diffOps[j].original => "expected" \in diag

\* C31: the row assertion of a table with result.data, none of whose seeding
\* operations is outstanding or failed, passes only when the table held as
\* many rows as result.data lists: fewer rows (or none) fail it, more rows
\* fail it.
C31_EveryExpectedRowIsCompared ==
  \A i \in DOMAIN dbp :
    (/\ dbp[i] = "resolved" /\ tc.db[i].result.defined /\ tc.db[i].result.data.defined
     /\ \A j \in OwnSeedOps : seedOps[j].st = "done")
      => Len(fetched[i]) = Len(ExpectedOf(i))

\* C32: a test case none of whose tables has a mock entry gets no error from
\* the uploadDir/logDir check, with or without the directories configured.
C32_CheckPassesWithoutMock ==
  (idx > 0 /\ \A i \in DOMAIN tc.db : ~tc.db[i].mock.defined)
    => outcome[idx] # "TypeError: cannot read property uploads of undefined"

\* C33: test() called with an empty array does not complete successfully: once
\* it is over, it has thrown.
C33_EmptyBatchThrows ==
  (ntests = 0 /\ pc # "loop") => pc = "rejected"

====
